---- MODULE Spec2Model ----
(***************************************************************************)
(* Model of DataReader_Problem5.1_SignalDetection.py: a module-as-script   *)
(* that parses data_SignalDetection.csv with np.genfromtxt, prints the     *)
(* array's shape, slices five columns and prints the first three elements  *)
(* of each.  One action per top-level statement; `pc` is the statement     *)
(* about to execute.                                                       *)
(*                                                                         *)
(* Floating-point values are held in tenths (15 stands for 1.5), so that   *)
(* astype(int) is a real truncation and not the identity.  A float is the  *)
(* record [nan, v]; an int is a plain integer.                             *)
(***************************************************************************)
EXTENDS Integers, Sequences, FiniteSets, TLC

VARIABLES
    fileStatus,   \* "ok", "missing" or "unreadable": what open() meets
    file,         \* the file's lines, each a sequence of comma-separated tokens
    nanCast,      \* what this build's float->int cast makes of NaN
    run,          \* how many times the script has been started
    pc,           \* statement about to execute, or "done" / "failed"
    bound,        \* names bound in the module namespace
    data, index, P, R, freq, type,   \* the module-level names of the script
    stdout,       \* lines written to standard output by this run
    exitCode,     \* process exit code (0 while running)
    error,        \* uncaught exception: [type, line]
    opens,        \* times this run opened the input file
    prev          \* what the previous run of the script ended with

vars == <<fileStatus, file, nanCast, run, pc, bound, data, index, P, R, freq,
          type, stdout, exitCode, error, opens, prev>>

(* ------------------------------ bounds --------------------------------- *)
MaxRows == 3
MaxRuns == 2

(* ------------------------- program constants --------------------------- *)
skip_header == 1
NCols == 5
SliceStop == 3

\* stand-in for INT64_MIN, the x86-64 result of casting NaN to int64
IntMin == -(2^30)
NanCastOutcomes == {IntMin, 0}

(* ------------------------------ tokens --------------------------------- *)
Num(v) == [num |-> TRUE, v |-> v]
BadToken == [num |-> FALSE, v |-> 0]
NaN == [nan |-> TRUE, v |-> 0]
Float(v) == [nan |-> FALSE, v |-> v]

Header == [j \in 1..NCols |-> BadToken]

Widths == 1..(NCols + 1)

\* the numeric text at data row i, field j (in tenths): distinct per column
\* and per row, fractional, negative on even rows
Field(i, j) == (IF i % 2 = 1 THEN 1 ELSE -1) * (10 * (j - 1) + 12 * i + 3)

MakeFile(w, b) ==
    <<Header>> \o [i \in 1..Len(w) |->
        [j \in 1..w[i] |-> IF <<i, j>> = b THEN BadToken ELSE Num(Field(i, j))]]

(* ------------------------------ numpy ---------------------------------- *)
Min(a, b) == IF a < b THEN a ELSE b

\* mutant: the cast rounds toward minus infinity
Trunc_floor(x) == x \div 10

\* int(x) for a float x held in tenths: truncation toward zero
Trunc(x) == IF x >= 0 THEN x \div 10 ELSE -((-x) \div 10)

\* genfromtxt's float converter: unparseable text becomes nan
ParseToken(tok) == IF tok.num THEN Float(tok.v) ELSE NaN

\* mutant: skip_header = 0, the header line is parsed as data
DataRows_keepHeader(f) == f

DataRows(f) == IF Len(f) <= skip_header THEN <<>> ELSE SubSeq(f, skip_header + 1, Len(f))

NoArray == [err |-> "none", shape |-> <<>>, rows |-> <<>>]

squeeze(shape) == SelectSeq(shape, LAMBDA d : d # 1)

\* mutant: invalid_raise = False, lines of the wrong length are dropped
genfromtxt_skipInvalid(status, f) ==
    IF status # "ok" THEN [NoArray EXCEPT !.err = "OSError"]
    ELSE LET lines == DataRows(f) IN
         IF lines = <<>> THEN [NoArray EXCEPT !.shape = <<0>>]
         ELSE LET nbcols == Len(lines[1])
                  kept == SelectSeq(lines, LAMBDA l : Len(l) = nbcols)
              IN  [err |-> "none",
                   shape |-> squeeze(<<Len(kept), nbcols>>),
                   rows |-> [i \in 1..Len(kept) |->
                               [j \in 1..nbcols |-> ParseToken(kept[i][j])]]]

\* mutant: a file that cannot be opened is read as an empty one
genfromtxt_noOSError(status, f) ==
    LET lines == IF status # "ok" THEN <<>> ELSE DataRows(f) IN
    IF lines = <<>> THEN [NoArray EXCEPT !.shape = <<0>>]
    ELSE LET nbcols == Len(lines[1]) IN
         IF \E i \in 1..Len(lines) : Len(lines[i]) # nbcols
         THEN [NoArray EXCEPT !.err = "ValueError"]
         ELSE [err |-> "none",
               shape |-> squeeze(<<Len(lines), nbcols>>),
               rows |-> [i \in 1..Len(lines) |->
                           [j \in 1..nbcols |-> ParseToken(lines[i][j])]]]

\* mutant: no data lines give an empty two-dimensional table of five columns
genfromtxt_emptyTable(status, f) ==
    IF status # "ok" THEN [NoArray EXCEPT !.err = "OSError"]
    ELSE LET lines == DataRows(f) IN
         IF lines = <<>> THEN [NoArray EXCEPT !.shape = <<0, NCols>>]
         ELSE LET nbcols == Len(lines[1]) IN
              IF \E i \in 1..Len(lines) : Len(lines[i]) # nbcols
              THEN [NoArray EXCEPT !.err = "ValueError"]
              ELSE [err |-> "none",
                    shape |-> squeeze(<<Len(lines), nbcols>>),
                    rows |-> [i \in 1..Len(lines) |->
                                [j \in 1..nbcols |-> ParseToken(lines[i][j])]]]

genfromtxt(status, f) ==
    IF status # "ok" THEN [NoArray EXCEPT !.err = "OSError"]
    ELSE LET lines == DataRows(f) IN
         IF lines = <<>> THEN [NoArray EXCEPT !.shape = <<0>>]
         ELSE LET nbcols == Len(lines[1]) IN
              IF \E i \in 1..Len(lines) : Len(lines[i]) # nbcols
              THEN [NoArray EXCEPT !.err = "ValueError"]
              ELSE [err |-> "none",
                    shape |-> squeeze(<<Len(lines), nbcols>>),
                    rows |-> [i \in 1..Len(lines) |->
                                [j \in 1..nbcols |-> ParseToken(lines[i][j])]]]

\* data[:, j] (j counted from 0)
Column(d, j) ==
    IF Len(d.shape) < 2 \/ j >= d.shape[2]
    THEN [err |-> "IndexError", vals |-> <<>>]
    ELSE [err |-> "none", vals |-> [i \in 1..d.shape[1] |-> d.rows[i][j + 1]]]

astype_int(a) == [i \in 1..Len(a) |-> IF a[i].nan THEN nanCast ELSE Trunc(a[i].v)]

\* mutant: a[1:3]
FirstThree_fromOne(a) == SubSeq(a, 2, Min(SliceStop, Len(a)))

\* a[0:3]
FirstThree(a) == SubSeq(a, 1, Min(SliceStop, Len(a)))

(* ------------------------------ state ---------------------------------- *)
NoError == [type |-> "none", line |-> 0]

Snapshot == [pc |-> pc, bound |-> bound, data |-> data, index |-> index, P |-> P,
             R |-> R, freq |-> freq, type |-> type, stdout |-> stdout,
             exitCode |-> exitCode, error |-> error]

Fresh ==
    /\ pc = "L19"
    /\ bound = {}
    /\ data = NoArray
    /\ index = <<>> /\ P = <<>> /\ R = <<>> /\ freq = <<>> /\ type = <<>>
    /\ stdout = <<>>
    /\ exitCode = 0
    /\ error = NoError
    /\ opens = 0

Init ==
    /\ fileStatus \in {"ok", "missing", "unreadable"}
    /\ \/ /\ fileStatus = "ok"
          /\ \E n \in 0..MaxRows : \E w \in [1..n -> Widths] :
               \E b \in {<<0, 0>>} \cup {c \in (1..n) \X Widths : c[2] <= w[c[1]]} :
                  file = MakeFile(w, b)
       \/ file = <<>>
    /\ nanCast \in NanCastOutcomes
    /\ run = 1
    /\ Fresh
    /\ prev = Snapshot

Raise(t, l) ==
    /\ pc' = "failed"
    /\ exitCode' = 1
    /\ error' = [type |-> t, line |-> l]

Env == <<fileStatus, file, nanCast, run, prev>>

\* mutant: reading uses the file up, so a later run finds it empty
Genfromtxt_consuming ==
    /\ pc = "L19"
    /\ opens' = opens + 1
    /\ file' = <<>>
    /\ LET r == genfromtxt(fileStatus, file) IN
         IF r.err # "none"
         THEN /\ Raise(r.err, 19)
              /\ UNCHANGED <<data, bound>>
         ELSE /\ data' = r
              /\ bound' = bound \cup {"data"}
              /\ pc' = "L20"
              /\ UNCHANGED <<exitCode, error>>
    /\ UNCHANGED <<fileStatus, nanCast, run, prev, index, P, R, freq, type, stdout>>

(* ----------------------- line 19: np.genfromtxt ------------------------ *)
Genfromtxt ==
    /\ pc = "L19"
    /\ opens' = opens + 1
    /\ LET r == genfromtxt(fileStatus, file) IN
         IF r.err # "none"
         THEN /\ Raise(r.err, 19)
              /\ UNCHANGED <<data, bound>>
         ELSE /\ data' = r
              /\ bound' = bound \cup {"data"}
              /\ pc' = "L20"
              /\ UNCHANGED <<exitCode, error>>
    /\ UNCHANGED <<Env, index, P, R, freq, type, stdout>>

(* ------------------- line 20: print(..., data.shape) ------------------- *)
PrintShape ==
    /\ pc = "L20"
    /\ stdout' = Append(stdout, [kind |-> "shape", vals |-> data.shape])
    /\ pc' = "L22"
    /\ UNCHANGED <<Env, bound, data, index, P, R, freq, type, exitCode, error, opens>>

(* ---------------- lines 22-26: the five column slices ------------------ *)
SliceIndex ==
    /\ pc = "L22"
    /\ LET c == Column(data, 0) IN
         IF c.err # "none"
         THEN /\ Raise(c.err, 22)
              /\ UNCHANGED <<index, bound>>
         ELSE /\ index' = astype_int(c.vals)
              /\ bound' = bound \cup {"index"}
              /\ pc' = "L23"
              /\ UNCHANGED <<exitCode, error>>
    /\ UNCHANGED <<Env, data, P, R, freq, type, stdout, opens>>

SliceP ==
    /\ pc = "L23"
    /\ LET c == Column(data, 1) IN
         IF c.err # "none"
         THEN /\ Raise(c.err, 23)
              /\ UNCHANGED <<P, bound>>
         ELSE /\ P' = c.vals
              /\ bound' = bound \cup {"P"}
              /\ pc' = "L24"
              /\ UNCHANGED <<exitCode, error>>
    /\ UNCHANGED <<Env, data, index, R, freq, type, stdout, opens>>

SliceR ==
    /\ pc = "L24"
    /\ LET c == Column(data, 2) IN
         IF c.err # "none"
         THEN /\ Raise(c.err, 24)
              /\ UNCHANGED <<R, bound>>
         ELSE /\ R' = c.vals
              /\ bound' = bound \cup {"R"}
              /\ pc' = "L25"
              /\ UNCHANGED <<exitCode, error>>
    /\ UNCHANGED <<Env, data, index, P, freq, type, stdout, opens>>

\* mutant: the inspection starts before the label column is extracted
SliceFreq_skipType ==
    /\ pc = "L25"
    /\ LET c == Column(data, 3) IN
         IF c.err # "none"
         THEN /\ Raise(c.err, 25)
              /\ UNCHANGED <<freq, bound>>
         ELSE /\ freq' = c.vals
              /\ bound' = bound \cup {"freq"}
              /\ pc' = "L28"
              /\ UNCHANGED <<exitCode, error>>
    /\ UNCHANGED <<Env, data, index, P, R, type, stdout, opens>>

SliceFreq ==
    /\ pc = "L25"
    /\ LET c == Column(data, 3) IN
         IF c.err # "none"
         THEN /\ Raise(c.err, 25)
              /\ UNCHANGED <<freq, bound>>
         ELSE /\ freq' = c.vals
              /\ bound' = bound \cup {"freq"}
              /\ pc' = "L26"
              /\ UNCHANGED <<exitCode, error>>
    /\ UNCHANGED <<Env, data, index, P, R, type, stdout, opens>>

SliceType ==
    /\ pc = "L26"
    /\ LET c == Column(data, 4) IN
         IF c.err # "none"
         THEN /\ Raise(c.err, 26)
              /\ UNCHANGED <<type, bound>>
         ELSE /\ type' = astype_int(c.vals)
              /\ bound' = bound \cup {"type"}
              /\ pc' = "L28"
              /\ UNCHANGED <<exitCode, error>>
    /\ UNCHANGED <<Env, data, index, P, R, freq, stdout, opens>>

(* ------------------- lines 28-32: print(x[0:3]) ------------------------ *)
Frame == <<Env, bound, data, index, P, R, freq, type, error, opens>>

PrintIndex ==
    /\ pc = "L28"
    /\ stdout' = Append(stdout, [kind |-> "index", vals |-> FirstThree(index)])
    /\ pc' = "L29"
    /\ UNCHANGED <<Frame, exitCode>>

\* mutant: line 29 prints R in place of P
PrintP_swapped ==
    /\ pc = "L29"
    /\ stdout' = Append(stdout, [kind |-> "R", vals |-> FirstThree(R)])
    /\ pc' = "L30"
    /\ UNCHANGED <<Frame, exitCode>>

PrintP ==
    /\ pc = "L29"
    /\ stdout' = Append(stdout, [kind |-> "P", vals |-> FirstThree(P)])
    /\ pc' = "L30"
    /\ UNCHANGED <<Frame, exitCode>>

\* mutant: a slice of fewer than three elements raises IndexError
PrintR_strict ==
    /\ pc = "L30"
    /\ IF Len(R) < SliceStop
       THEN /\ pc' = "failed"
            /\ exitCode' = 1
            /\ error' = [type |-> "IndexError", line |-> 30]
            /\ UNCHANGED stdout
       ELSE /\ stdout' = Append(stdout, [kind |-> "R", vals |-> FirstThree(R)])
            /\ pc' = "L31"
            /\ UNCHANGED <<exitCode, error>>
    /\ UNCHANGED <<Env, bound, data, index, P, R, freq, type, opens>>

PrintR ==
    /\ pc = "L30"
    /\ stdout' = Append(stdout, [kind |-> "R", vals |-> FirstThree(R)])
    /\ pc' = "L31"
    /\ UNCHANGED <<Frame, exitCode>>

PrintFreq ==
    /\ pc = "L31"
    /\ stdout' = Append(stdout, [kind |-> "freq", vals |-> FirstThree(freq)])
    /\ pc' = "L32"
    /\ UNCHANGED <<Frame, exitCode>>

\* the last statement: the interpreter then exits with code 0
PrintType ==
    /\ pc = "L32"
    /\ stdout' = Append(stdout, [kind |-> "type", vals |-> FirstThree(type)])
    /\ pc' = "done"
    /\ exitCode' = 0
    /\ UNCHANGED Frame

(* --------------- the script is started again (new process) ------------- *)
Rerun ==
    /\ pc \in {"done", "failed"}
    /\ run < MaxRuns
    /\ run' = run + 1
    /\ prev' = Snapshot
    /\ pc' = "L19"
    /\ bound' = {}
    /\ data' = NoArray
    /\ index' = <<>> /\ P' = <<>> /\ R' = <<>> /\ freq' = <<>> /\ type' = <<>>
    /\ stdout' = <<>>
    /\ exitCode' = 0
    /\ error' = NoError
    /\ opens' = 0
    /\ UNCHANGED <<fileStatus, file, nanCast>>

Next ==
    \/ Genfromtxt
    \/ PrintShape
    \/ SliceIndex
    \/ SliceP
    \/ SliceR
    \/ SliceFreq
    \/ SliceType
    \/ PrintIndex
    \/ PrintP
    \/ PrintR
    \/ PrintFreq
    \/ PrintType
    \/ Rerun

Spec == Init /\ [][Next]_vars

(* ======================================================================= *)
(* Properties                                                              *)
(* ======================================================================= *)

\* facts about the input, read off the file itself
NRows == IF Len(file) = 0 THEN 0 ELSE Len(file) - 1
Readable == fileStatus = "ok"
HasHeader == Readable /\ Len(file) >= 1
DataLineNos == 2..Len(file)
WellFormed ==
    /\ HasHeader
    /\ \A i \in DataLineNos :
         /\ Len(file[i]) = 5
         /\ \A j \in 1..5 : file[i][j].num
Malformed ==
    /\ HasHeader
    /\ \E i \in DataLineNos :
         \/ Len(file[i]) # 5
         \/ \E j \in 1..Len(file[i]) : ~file[i][j].num
Ragged == HasHeader /\ \E i \in DataLineNos : Len(file[i]) # Len(file[2])
Uniform(k) == HasHeader /\ NRows >= 1 /\ \A i \in DataLineNos : Len(file[i]) = k

Terminal == pc \in {"done", "failed"}
Columns == {"index", "P", "R", "freq", "type"}
Loaded == pc \in {"L28", "L29", "L30", "L31", "L32", "done"}
Kinds == <<"shape", "index", "P", "R", "freq", "type">>
InOrder == \A k \in 1..Len(stdout) : k <= 6 /\ stdout[k].kind = Kinds[k]

\* k is x (a float in tenths) cast to integer
IsIntCast(x, k) ==
    IF x >= 0 THEN 10 * k <= x /\ x < 10 * k + 10
    ELSE 10 * k - 10 < x /\ x <= 10 * k

\* the float and the int that the text of field j of data row i stands for
TextFloat(i, j) == IF file[i + 1][j].num THEN Float(file[i + 1][j].v) ELSE NaN
IsTextInt(i, j, k) ==
    IF file[i + 1][j].num THEN IsIntCast(file[i + 1][j].v, k) ELSE k = nanCast

Shown == IF NRows < 3 THEN NRows ELSE 3

C2_RowCount ==
    (WellFormed /\ NRows >= 3) =>
        /\ pc # "failed"
        /\ (Loaded =>
              /\ Columns \subseteq bound
              /\ data.shape = <<NRows, 5>>
              /\ Len(index) = NRows /\ Len(P) = NRows /\ Len(R) = NRows
              /\ Len(freq) = NRows /\ Len(type) = NRows)

C2_Witness == WellFormed /\ NRows = 3 /\ pc = "L28" /\ Len(type) = 3

C4_Original == stdout # <<>> => Columns \subseteq bound

\* C4 (amended): nothing is written until genfromtxt has returned the array,
\* so a run whose parse fails writes nothing; the shape line is written before
\* the column extraction; the five first-three lines are written only after
\* all five columns are extracted; a run that fails during the column
\* extraction has written the shape line and nothing else.
C4_ParseBeforeOutput ==
    /\ stdout # <<>> => ("data" \in bound /\ stdout[1].kind = "shape")
    /\ Len(stdout) >= 2 => Columns \subseteq bound
    /\ pc \in {"L22", "L23", "L24", "L25", "L26"} => Len(stdout) = 1
    /\ (pc = "failed" /\ error.line = 19) => stdout = <<>>
    /\ (pc = "failed" /\ error.line # 19) =>
          (error.line \in 22..26 /\ Len(stdout) = 1 /\ ~(Columns \subseteq bound))

C4_Witness == pc = "L24" /\ Len(stdout) = 1 /\ bound = {"data", "index", "P"}

\* C5 (as stated): a file with a malformed data line (not exactly five fields,
\* or a non-numeric token) makes the run fail: no table is produced and the
\* exit code is non-zero.
C5_Original ==
    (Malformed /\ Terminal) =>
        /\ pc = "failed"
        /\ exitCode # 0
        /\ ~(Columns \subseteq bound)

\* C5 (amended): a file whose data lines do not all have the same number of
\* fields makes genfromtxt fail (ValueError): nothing bound, nothing printed,
\* non-zero exit code.  A file whose lines all have the same number of fields,
\* fewer than five, fails with an IndexError in the column extraction, after
\* the shape line.  A non-numeric token alone does not fail the run: it is
\* read as nan, and a file of two or more five-field lines ends successfully.
C5_RaggedFails ==
    /\ (Ragged /\ pc # "L19") =>
          /\ pc = "failed"
          /\ error = [type |-> "ValueError", line |-> 19]
          /\ exitCode # 0
          /\ bound = {}
          /\ stdout = <<>>
    /\ (\E k \in 1..4 : Uniform(k)) /\ Terminal =>
          /\ pc = "failed"
          /\ error.type = "IndexError"
          /\ error.line \in 22..26
          /\ exitCode # 0
          /\ ~(Columns \subseteq bound)
    /\ (Uniform(5) /\ NRows >= 2 /\ Terminal) =>
          /\ pc = "done"
          /\ exitCode = 0
          /\ \A i \in 1..NRows : P[i] = TextFloat(i, 2) /\ freq[i] = TextFloat(i, 4)

C5_Witness == Ragged /\ pc = "failed" /\ NRows = 3 /\ Len(file[2]) = 5

C5_NanWitness == Uniform(5) /\ Malformed /\ pc = "done"

\* C6: a successful run exits with code 0; when the input file is missing or
\* unreadable the run fails at once with the file-access error, having opened
\* the file once, with a non-zero exit code and nothing printed.
C6_FileAccess ==
    /\ pc = "done" => (exitCode = 0 /\ opens = 1)
    /\ (~Readable /\ pc # "L19") =>
          /\ pc = "failed"
          /\ error = [type |-> "OSError", line |-> 19]
          /\ exitCode # 0
          /\ opens = 1
          /\ stdout = <<>>
          /\ bound = {}

C6_Witness == fileStatus = "missing" /\ pc = "failed" /\ opens = 1

\* C7 (as stated): with a header and exactly two data rows, inspect fails with
\* an IndexError instead of printing shortened sequences.
C7_Original ==
    (WellFormed /\ NRows = 2 /\ Terminal) =>
        (pc = "failed" /\ error.type = "IndexError" /\ error.line \in 28..32)

\* C7 (amended): with a header and exactly two data rows, load succeeds with
\* rowCount 2 and the run completes: the slices [0:3] yield the two values
\* there are, six lines are written and the exit code is 0.
C7_TwoRowsComplete ==
    (WellFormed /\ NRows = 2) =>
        /\ pc # "failed"
        /\ Loaded => (data.shape = <<2, 5>> /\ Len(index) = 2 /\ Len(type) = 2)
        /\ pc = "done" =>
              /\ exitCode = 0
              /\ Len(stdout) = 6
              /\ \A k \in 2..6 : Len(stdout[k].vals) = 2
              /\ stdout[3].vals = <<TextFloat(1, 2), TextFloat(2, 2)>>

C7_Witness == WellFormed /\ NRows = 2 /\ pc = "done"

\* C8 (as stated): with a header and no data rows, load succeeds with five
\* empty sequences, and the IndexError occurs only afterwards, in inspect.
C8_Original ==
    (HasHeader /\ NRows = 0 /\ pc = "failed") => error.line \in 28..32

\* C8 (amended): with a header and no data rows, genfromtxt returns an empty
\* one-dimensional array of shape (0,), the shape line is printed, and the run
\* fails with an IndexError at the first column extraction (line 22): no
\* column is ever bound and the exit code is non-zero.
C8_EmptyFailsInSlice ==
    (HasHeader /\ NRows = 0) =>
        /\ pc \in {"L19", "L20", "L22", "failed"}
        /\ "data" \in bound => data.shape = <<0>>
        /\ pc = "failed" =>
              /\ error = [type |-> "IndexError", line |-> 22]
              /\ exitCode # 0
              /\ bound = {"data"}
              /\ stdout = <<[kind |-> "shape", vals |-> <<0>>]>>

C8_Witness == HasHeader /\ NRows = 0 /\ pc = "failed"

C10_LineCounts ==
    /\ Len(stdout) <= 6
    /\ Terminal =>
          /\ Len(stdout) \in {0, 1, 6}
          /\ (pc = "done" /\ exitCode = 0) <=> Len(stdout) = 6
          /\ pc = "failed" => exitCode # 0
          /\ Len(stdout) = 1 =>
                /\ stdout[1].kind = "shape"
                /\ pc = "failed"
                /\ error.line \in 22..26

C10_Witness == pc = "failed" /\ Len(stdout) = 1 /\ error.line = 26

====
